---- MODULE Spec2Model ----
(***************************************************************************)
(* A model of the I2C helper library i2c_gui2: the codec functions of      *)
(* functions.py, the chunked transaction engine I2C_Connection_Helper and  *)
(* the USB-ISS backend USB_ISS_Helper.                                     *)
(*                                                                         *)
(* A call of a public method is one action.  The action computes the whole *)
(* handler and stores in `last` what the call did: the ordered log of the  *)
(* backend primitives it invoked, of the transport (usb_iss) calls these   *)
(* made and of the delays it waited, the error it raised (if any) and the  *)
(* value it returned.  The caller then takes the result (Return) and may   *)
(* issue the next call.                                                    *)
(*                                                                         *)
(* TLC integers are 32-bit signed, Python's are unbounded: the inputs are  *)
(* drawn so that every intermediate value stays below 2^31.                *)
(***************************************************************************)
EXTENDS Integers, Sequences, FiniteSets, TLC

VARIABLES is_connected,   \* I2C_Connection_Helper._is_connected
          no_connect,     \* I2C_Connection_Helper._no_connect (emulation flag)
          max_seq_byte,   \* I2C_Connection_Helper._max_seq_byte: None or <<L>>
          last            \* what the last public call did (history)

vars == <<is_connected, no_connect, max_seq_byte, last>>

----------------------------------------------------------------------------
(* Bounds of the model *)

\* the largest word count of a block read or write
MaxWords == 10
\* the largest length of an enumerated opcode token stream
MaxStream == 4
\* the largest length of a word list handed to word_list_to_bytes
MaxPack == 3
\* the largest byte count asked of the backend's read primitive
MaxByteCount == 18
\* the largest length of a byte list handed to bytes_to_word_list
MaxBytes == 5

----------------------------------------------------------------------------
(* Python values *)

\* None (the "no per-call limit" value of max_seq_byte); an integer L is <<L>>
None == <<>>
Some(L) == <<L>>

\* a Python value that is an int, and one that is not (the str "hello")
PyInt(n) == [isint |-> TRUE, v |-> n]
PyStr == [isint |-> FALSE, v |-> 0]

\* Python's &, |, >> and << on non-negative integers
RECURSIVE BitAnd(_, _)
BitAnd(a, b) ==
    IF a = 0 \/ b = 0 THEN 0
    ELSE (a % 2) * (b % 2) + 2 * BitAnd(a \div 2, b \div 2)

RECURSIVE BitOr(_, _)
BitOr(a, b) ==
    IF a = 0 THEN b
    ELSE IF b = 0 THEN a
    ELSE (IF a % 2 = 1 \/ b % 2 = 1 THEN 1 ELSE 0) + 2 * BitOr(a \div 2, b \div 2)

RShift(v, k) == v \div (2 ^ k)
LShift(v, k) == v * (2 ^ k)

\* a Python int of up to 47 bits, wider than the integers at hand: the value
\* hi * 2^16 + lo with lo in 0..65535
Wide(hi, lo) == [hi |-> hi, lo |-> lo]
ToWide(n) == Wide(n \div 65536, n % 65536)
FromWide(w) == w.hi * 65536 + w.lo

\* Python's &, |, >> and << on such ints, for shifts of 0..32 bits
WideAnd(x, y) == Wide(BitAnd(x.hi, y.hi), BitAnd(x.lo, y.lo))
WideOr(x, y) == Wide(BitOr(x.hi, y.hi), BitOr(x.lo, y.lo))
WideRShift(x, k) ==
    LET y == IF k >= 16 THEN Wide(x.hi \div 65536, x.hi % 65536) ELSE x
        j == IF k >= 16 THEN k - 16 ELSE k
    IN  Wide(y.hi \div (2 ^ j), (y.hi % (2 ^ j)) * (2 ^ (16 - j)) + y.lo \div (2 ^ j))
WideLShift(x, k) ==
    LET y == IF k >= 16 THEN Wide(x.hi * 65536 + x.lo, 0) ELSE x
        j == IF k >= 16 THEN k - 16 ELSE k
    IN  Wide(y.hi * (2 ^ j) + (y.lo * (2 ^ j)) \div 65536, (y.lo * (2 ^ j)) % 65536)

\* math.ceil(a / b) for b # 0 and math.floor(a / b) for b > 0
CeilDiv(a, b) == IF b > 0 THEN (a + b - 1) \div b ELSE -(a \div (-b))
FloorDiv(a, b) == a \div b

Min(a, b) == IF a < b THEN a ELSE b

----------------------------------------------------------------------------
(* functions.py *)

\* a swap that loses the low byte
swap_endian_16bit_DropsLowByte(value) == RShift(BitAnd(value, 65535), 8)

swap_endian_16bit(value) ==
    LET v == BitAnd(value, 65535)
    IN  BitOr(RShift(v, 8), LShift(BitAnd(v, 255), 8))

\* a swap that does not limit the value to 32 bits first
swap_endian_32bit_NoMask(value) ==
    LET v == value
    IN  WideOr(WideOr(WideRShift(v, 24), WideRShift(WideAnd(v, Wide(255, 0)), 8)),
               WideOr(WideLShift(WideAnd(v, Wide(0, 65280)), 8),
                      WideLShift(WideAnd(v, Wide(0, 255)), 24)))

\* value and the result are wide ints: a 32-bit result does not fit the
\* integers at hand
swap_endian_32bit(value) ==
    LET v == WideAnd(value, Wide(65535, 65535))
    IN  WideOr(WideOr(WideRShift(v, 24), WideRShift(WideAnd(v, Wide(255, 0)), 8)),
               WideOr(WideLShift(WideAnd(v, Wide(0, 65280)), 8),
                      WideLShift(WideAnd(v, Wide(0, 255)), 24)))

\* a range test that lets 128 through
valid_i2c_address_Accepts128(value) ==
    IF ~value.isint THEN FALSE
    ELSE IF value.v > 128 \/ value.v < 0 THEN FALSE
    ELSE TRUE

valid_i2c_address(value) ==
    IF ~value.isint THEN FALSE
    ELSE IF value.v > 127 \/ value.v < 0 THEN FALSE
    ELSE TRUE

\* a conversion that passes an address of an unknown width through
address_to_phys_NoRaise(address, bitlength, endianness) ==
    IF endianness = "little"
    THEN IF bitlength = 16 THEN [err |-> "", val |-> swap_endian_16bit(address)]
         ELSE IF bitlength = 32
         THEN [err |-> "", val |-> FromWide(swap_endian_32bit(ToWide(address)))]
         ELSE [err |-> "", val |-> address]
    ELSE [err |-> "", val |-> address]

\* returns [err, val]: err is "" when the function returns val
address_to_phys(address, bitlength, endianness) ==
    IF endianness = "little"
    THEN IF bitlength = 8 THEN [err |-> "", val |-> address]
         ELSE IF bitlength = 16 THEN [err |-> "", val |-> swap_endian_16bit(address)]
         ELSE IF bitlength = 32
         THEN [err |-> "", val |-> FromWide(swap_endian_32bit(ToWide(address)))]
         ELSE [err |-> "UnsupportedWidth", val |-> 0]
    ELSE [err |-> "", val |-> address]

\* a packing that emits the most significant byte first whatever the endianness
word_list_to_bytes_AlwaysBig(word_list, bytelength, endianness) ==
    IF bytelength = 1 THEN word_list
    ELSE [k \in 1..(Len(word_list) * bytelength) |->
            LET word == word_list[((k - 1) \div bytelength) + 1]
                byte_offset == (k - 1) % bytelength
            IN  BitAnd(RShift(word, (bytelength - 1 - byte_offset) * 8), 255)]

word_list_to_bytes(word_list, bytelength, endianness) ==
    IF bytelength = 1 THEN word_list
    ELSE [k \in 1..(Len(word_list) * bytelength) |->
            LET word == word_list[((k - 1) \div bytelength) + 1]
                byte_offset == (k - 1) % bytelength
            IN  IF endianness = "big"
                THEN BitAnd(RShift(word, (bytelength - 1 - byte_offset) * 8), 255)
                ELSE BitAnd(RShift(word, byte_offset * 8), 255)]

RECURSIVE WordOf(_, _, _, _, _)
\* the inner loop of bytes_to_word_list: word += byte << shift, byte_offset on
WordOf(byte_list, byte_base_idx, bytelength, endianness, byte_offset) ==
    IF byte_offset >= bytelength THEN 0
    ELSE LET byte_idx == byte_base_idx + byte_offset
             shift == IF endianness = "big"
                      THEN (bytelength - 1 - byte_offset) * 8
                      ELSE byte_offset * 8
         IN  LShift(byte_list[byte_idx + 1], shift)
             + WordOf(byte_list, byte_base_idx, bytelength, endianness, byte_offset + 1)

\* an unpacking that fills a trailing partial group with zero bytes
bytes_to_word_list_Pads(byte_list, bytelength, endianness) ==
    IF bytelength = 1 THEN byte_list
    ELSE LET missing == (bytelength - (Len(byte_list) % bytelength)) % bytelength
             padded == byte_list \o [k \in 1..missing |-> 0]
             word_count == Len(padded) \div bytelength
         IN  [word_idx \in 1..word_count |->
                WordOf(padded, (word_idx - 1) * bytelength, bytelength, endianness, 0)]

bytes_to_word_list(byte_list, bytelength, endianness) ==
    IF bytelength = 1 THEN byte_list
    ELSE LET word_count == Len(byte_list) \div bytelength
         IN  [word_idx \in 1..word_count |->
                WordOf(byte_list, (word_idx - 1) * bytelength, bytelength, endianness, 0)]

----------------------------------------------------------------------------
(* The opcode enumerations *)

ReadNames == <<"READ1", "READ2", "READ3", "READ4", "READ5", "READ6", "READ7", "READ8",
               "READ9", "READ10", "READ11", "READ12", "READ13", "READ14", "READ15",
               "READ16">>
WriteNames == <<"WRITE1", "WRITE2", "WRITE3", "WRITE4", "WRITE5", "WRITE6", "WRITE7",
                "WRITE8", "WRITE9", "WRITE10", "WRITE11", "WRITE12", "WRITE13",
                "WRITE14", "WRITE15", "WRITE16">>
BareNames == {"START", "RESTART", "STOP", "NACK"}

IndexOf(names, name) == CHOOSE k \in 1..Len(names) : names[k] = name
IsIn(names, name) == \E k \in 1..Len(names) : names[k] = name

OpNames == BareNames \cup {ReadNames[k] : k \in 1..16} \cup {WriteNames[k] : k \in 1..16}

\* the byte the bridge chip's direct mode uses for an opcode
OpValue(name) ==
    IF name = "START" THEN 1
    ELSE IF name = "RESTART" THEN 2
    ELSE IF name = "STOP" THEN 3
    ELSE IF name = "NACK" THEN 4
    ELSE IF IsIn(ReadNames, name) THEN 31 + IndexOf(ReadNames, name)
    ELSE 47 + IndexOf(WriteNames, name)

\* a plain int as an entry of a token stream or of an opcode buffer
IntTok(v) == [cls |-> "int", name |-> "", value |-> v]
\* a member of usb_iss.defs.I2CDirect
I2CDirect(name) == [cls |-> "I2CDirect", name |-> name, value |-> OpValue(name)]
\* a member of the enumeration I2CMessages, and the enumeration
Msg(name) == [cls |-> "I2CMessages", name |-> name, value |-> OpValue(name)]
I2CMessages == {Msg(name) : name \in OpNames}

----------------------------------------------------------------------------
(* The transport: the usb_iss driver object self._iss.i2c and the bus        *)
(* behind it.  env is what the environment decides during one call:         *)
(*   fail_at  the transport call (1, 2, ...) that raises; 0 for none        *)
(*   seed     the contents of the device                                    *)
(*   reg_bytes the number of bytes a register of the device holds           *)
(*   short    the number of bytes a direct-mode execution falls short by    *)

TransportEvs == {"test", "read_ad1", "read_ad2", "write_ad1", "write_ad2", "direct"}
PrimitiveEvs == {"probe", "block_read", "block_write"}

\* an entry of the log: data is a list of ints, buf an opcode buffer
Ev(ev, dev, addr, n, data, mode, buf) ==
    [ev |-> ev, dev |-> dev, addr |-> addr, n |-> n, data |-> data, mode |-> mode,
     buf |-> buf]

Sleep == Ev("sleep", PyInt(0), 0, 0, <<>>, "", <<>>)

RECURSIVE CountEv(_, _)
CountEv(log, evs) ==
    IF log = <<>> THEN 0
    ELSE (IF Head(log).ev \in evs THEN 1 ELSE 0) + CountEv(Tail(log), evs)

\* byte offset of the register reg of the device
RegisterByte(env, reg, offset) == (env.seed + reg * env.reg_bytes + offset) % 256

\* the bytes a device returns for a read of n bytes at register address addr
DeviceBytes(env, addr, n) ==
    [k \in 1..n |-> RegisterByte(env, addr + (k - 1) \div env.reg_bytes,
                                 (k - 1) % env.reg_bytes)]

RECURSIVE ReadTotal(_, _)
\* the number of bytes the READ opcodes of an opcode buffer ask for, from position idx
ReadTotal(buf, idx) ==
    IF idx > Len(buf) THEN 0
    ELSE LET v == buf[idx].value
         IN  IF v >= 48 /\ v <= 63 THEN ReadTotal(buf, idx + (v - 47) + 1)
             ELSE IF v >= 32 /\ v <= 47 THEN (v - 31) + ReadTotal(buf, idx + 1)
             ELSE ReadTotal(buf, idx + 1)

\* one call of a usb_iss method: the call is logged; it raises if the
\* environment fails it, else it returns data
Transport(log, env, ev, dev, addr, n, data, buf, result) ==
    LET log1 == Append(log, Ev(ev, dev, addr, n, data, "", buf))
    IN  IF CountEv(log1, TransportEvs) = env.fail_at
        THEN [err |-> "TransportError", data |-> <<>>, log |-> log1]
        ELSE [err |-> "", data |-> result, log |-> log1]

----------------------------------------------------------------------------
(* i2c_usb_iss_helper.py: the backend primitives.  Each takes the log so    *)
(* far and returns [err, data, log].                                       *)

_check_i2c_device(log, env, device_address) ==
    LET log1 == Append(log, Ev("probe", device_address, 0, 0, <<>>, "", <<>>))
    IN  Transport(log1, env, "test", device_address, 0, 0, <<>>, <<>>, env.present)

_write_i2c_device_memory(log, env, device_address, word_address, byte_data, write_type, address_bitlength) ==
    LET log1 == Append(log, Ev("block_write", device_address, word_address,
                               Len(byte_data), byte_data, write_type, <<>>))
    IN  IF write_type = "Normal"
        THEN IF address_bitlength = 16
             THEN Transport(log1, env, "write_ad2", device_address, word_address,
                            Len(byte_data), byte_data, <<>>, <<>>)
             ELSE IF address_bitlength = 8
             THEN Transport(log1, env, "write_ad1", device_address, word_address,
                            Len(byte_data), byte_data, <<>>, <<>>)
             ELSE [err |-> "UnsupportedWidth", data |-> <<>>, log |-> log1]
        ELSE [err |-> "InvalidMode", data |-> <<>>, log |-> log1]

\* the opcode stream of a repeated-start read, up to the READ opcodes
RepeatedStartHead(device_address, word_address, address_bitlength) ==
    LET device_address_byte == LShift(device_address.v, 1)
    IN  <<I2CDirect("START")>>
        \o (IF address_bitlength = 8
            THEN <<I2CDirect("WRITE2"), IntTok(device_address_byte),
                   IntTok(BitAnd(word_address, 255))>>
            ELSE <<I2CDirect("WRITE3"), IntTok(device_address_byte),
                   IntTok(BitAnd(RShift(word_address, 8), 255)),
                   IntTok(BitAnd(word_address, 255))>>)
        \o <<I2CDirect("RESTART"), I2CDirect("WRITE1"),
             IntTok(BitOr(device_address_byte, 1))>>

\* a stream whose first READ opcode asks for all the bytes
RepeatedStartTail_OffByOne(byte_count) ==
    (IF byte_count > 1 THEN <<I2CDirect(ReadNames[byte_count])>> ELSE <<>>)
    \o <<I2CDirect("NACK"), I2CDirect("READ1"), I2CDirect("STOP")>>

\* the READ opcodes and the end of the stream, for byte_count <= 16
RepeatedStartTail(byte_count) ==
    (IF byte_count > 1 THEN <<I2CDirect(ReadNames[byte_count - 1])>> ELSE <<>>)
    \o <<I2CDirect("NACK"), I2CDirect("READ1"), I2CDirect("STOP")>>

\* a capacity check that lets one byte too many through
CapacityOk_Seventeen(byte_count) == byte_count <= 17

\* byte_count <= 16: the READ opcodes reach READ16
CapacityOk(byte_count) == byte_count <= 16

\* a length check that accepts a short answer
LengthMatches_AtMost(retVal, byte_count) == Len(retVal) <= byte_count

\* len(retVal) != byte_count raises
LengthMatches(retVal, byte_count) == Len(retVal) = byte_count

_read_i2c_device_memory(log, env, device_address, word_address, byte_count, read_type, address_bitlength) ==
    LET log1 == Append(log, Ev("block_read", device_address, word_address, byte_count,
                               <<>>, read_type, <<>>))
    IN  IF read_type = "Normal"
        THEN IF address_bitlength = 16
             THEN Transport(log1, env, "read_ad2", device_address, word_address,
                            byte_count, <<>>, <<>>,
                            DeviceBytes(env, word_address, byte_count))
             ELSE IF address_bitlength = 8
             THEN Transport(log1, env, "read_ad1", device_address, word_address,
                            byte_count, <<>>, <<>>,
                            DeviceBytes(env, word_address, byte_count))
             ELSE [err |-> "UnsupportedWidth", data |-> <<>>, log |-> log1]
        ELSE IF read_type = "Repeated Start"
        THEN IF address_bitlength # 8 /\ address_bitlength # 16
             THEN [err |-> "UnsupportedWidth", data |-> <<>>, log |-> log1]
             ELSE IF ~CapacityOk(byte_count)
             THEN [err |-> "CapacityExceeded", data |-> <<>>, log |-> log1]
             ELSE LET direct_msg ==
                          RepeatedStartHead(device_address, word_address,
                                            address_bitlength)
                          \o RepeatedStartTail(byte_count)
                      got == ReadTotal(direct_msg, 1) - env.short
                      r == Transport(log1, env, "direct", device_address, 0, 0, <<>>,
                                     direct_msg,
                                     DeviceBytes(env, word_address,
                                                 IF got < 0 THEN 0 ELSE got))
                  IN  IF r.err # "" THEN r
                      ELSE IF ~LengthMatches(r.data, byte_count)
                      THEN [err |-> "ShortRead", data |-> <<>>, log |-> r.log]
                      ELSE r
        ELSE [err |-> "InvalidMode", data |-> <<>>, log |-> log1]

----------------------------------------------------------------------------
(* i2c_connection_helper.py: the chunked transaction engine.  A call takes  *)
(* its arguments as a record a, named as the method's parameters, and       *)
(* returns [err, ret, log].                                                *)

valid_endianness == {"little", "big"}
valid_read_type == {"Normal", "Repeated Start"}
valid_write_type == {"Normal"}

\* the address_bitlength the backend primitive runs with: the engine does not
\* pass the transaction's, so it is the default of the backend's parameter
BackendAddressBitlength(a) == 8

\* the modes write_device_memory accepts
WriteModeCheck == valid_read_type

\* the delays waited after sub-call i (0-based) of sequential_calls
DelayAfter(i, sequential_calls) == <<Sleep>>

\* the arithmetic of the chunking loops
\* a chunk size rounded up instead of down
WordsPerCall_RoundsUp(limit, word_bytes) == CeilDiv(limit, word_bytes)
WordsPerCall(limit, word_bytes) == FloorDiv(limit, word_bytes)
SequentialCalls(word_count, words_per_call) == CeilDiv(word_count, words_per_call)
\* a loop that reads every block at the start address
ThisBlockAddress_Stuck(word_address, i, words_per_call) == word_address
ThisBlockAddress(word_address, i, words_per_call) == word_address + i * words_per_call
\* a loop that asks for a full block every time
ThisBlockWords_NoMin(words_per_call, word_count, i) == words_per_call

ThisBlockWords(words_per_call, word_count, i) ==
    Min(words_per_call, word_count - i * words_per_call)

Raise(err, log) == [err |-> err, ret |-> <<>>, log |-> log]

\* precondition checks that look at the device address before the connection
Precondition_AddressFirst(a, mode, modes) ==
    IF ~valid_i2c_address(a.device_address) THEN "InvalidAddress"
    ELSE IF ~is_connected THEN "NotConnected"
    ELSE IF a.address_endianness \notin valid_endianness THEN "InvalidEndianness"
    ELSE IF a.word_endianness \notin valid_endianness THEN "InvalidEndianness"
    ELSE IF mode \notin modes THEN "InvalidMode"
    ELSE ""

\* the precondition checks read_device_memory and write_device_memory share
Precondition(a, mode, modes) ==
    IF ~is_connected THEN "NotConnected"
    ELSE IF ~valid_i2c_address(a.device_address) THEN "InvalidAddress"
    ELSE IF a.address_endianness \notin valid_endianness THEN "InvalidEndianness"
    ELSE IF a.word_endianness \notin valid_endianness THEN "InvalidEndianness"
    ELSE IF mode \notin modes THEN "InvalidMode"
    ELSE ""

\* synthetic bytes with the 42 at the other end of the word
EmulatedBytes_OtherEnd(word_count, word_bytes, word_endianness) ==
    IF word_count = 1
    THEN IF word_bytes = 1 THEN <<42>>
         ELSE LET zeros == [k \in 1..(word_bytes - 1) |-> 0]
              IN  IF word_endianness = "big" THEN <<42>> \o zeros ELSE zeros \o <<42>>
    ELSE [k \in 1..(word_count * word_bytes) |-> k - 1]

\* the synthetic bytes of an emulated read
EmulatedBytes(word_count, word_bytes, word_endianness) ==
    IF word_count = 1
    THEN IF word_bytes = 1 THEN <<42>>
         ELSE LET zeros == [k \in 1..(word_bytes - 1) |-> 0]
              IN  IF word_endianness = "big" THEN zeros \o <<42>> ELSE <<42>> \o zeros
    ELSE [k \in 1..(word_count * word_bytes) |-> k - 1]

RECURSIVE ReadLoop(_, _, _, _, _, _, _)
RECURSIVE ReadLoop_RetriesOnce(_, _, _, _, _, _, _)
\* a loop that issues a failed block read a second time
ReadLoop_RetriesOnce(a, env, i, sequential_calls, words_per_call, word_bytes, acc) ==
    IF i >= sequential_calls THEN acc
    ELSE LET this_block_address == ThisBlockAddress(a.word_address, i, words_per_call)
             this_block_words == ThisBlockWords(words_per_call, a.word_count, i)
             bytes_to_read == this_block_words * word_bytes
             phys == address_to_phys(this_block_address, a.address_bitlength,
                                     a.address_endianness)
         IN  IF phys.err # "" THEN [err |-> phys.err, data |-> <<>>, log |-> acc.log]
             ELSE LET r1 == _read_i2c_device_memory(acc.log, env, a.device_address,
                                                    phys.val, bytes_to_read, a.read_type,
                                                    BackendAddressBitlength(a))
                      r == IF r1.err = "" THEN r1
                           ELSE _read_i2c_device_memory(r1.log, env, a.device_address,
                                                        phys.val, bytes_to_read,
                                                        a.read_type,
                                                        BackendAddressBitlength(a))
                  IN  IF r.err # "" THEN r
                      ELSE ReadLoop_RetriesOnce(a, env, i + 1, sequential_calls,
                                                words_per_call, word_bytes,
                                                [err |-> "", data |-> acc.data \o r.data,
                                                 log |-> r.log \o DelayAfter(i, sequential_calls)])

\* iterations i, i+1, ... of the loop of read_device_memory; acc is
\* [err, data, log] with the bytes read and the log so far
ReadLoop(a, env, i, sequential_calls, words_per_call, word_bytes, acc) ==
    IF i >= sequential_calls THEN acc
    ELSE LET this_block_address == ThisBlockAddress(a.word_address, i, words_per_call)
             this_block_words == ThisBlockWords(words_per_call, a.word_count, i)
             bytes_to_read == this_block_words * word_bytes
             phys == address_to_phys(this_block_address, a.address_bitlength,
                                     a.address_endianness)
         IN  IF phys.err # "" THEN [err |-> phys.err, data |-> <<>>, log |-> acc.log]
             ELSE LET r == _read_i2c_device_memory(acc.log, env, a.device_address,
                                                   phys.val, bytes_to_read, a.read_type,
                                                   BackendAddressBitlength(a))
                  IN  IF r.err # "" THEN r
                      ELSE ReadLoop(a, env, i + 1, sequential_calls, words_per_call,
                                    word_bytes,
                                    [err |-> "", data |-> acc.data \o r.data,
                                     log |-> r.log \o DelayAfter(i, sequential_calls)])

read_device_memory(a, env) ==
    LET pre == Precondition(a, a.read_type, valid_read_type)
        word_bytes == CeilDiv(a.word_bitlength, 8)
    IN  IF pre # "" THEN Raise(pre, <<>>)
        ELSE IF no_connect
        THEN [err |-> "", log |-> <<>>,
              ret |-> bytes_to_word_list(
                          EmulatedBytes(a.word_count, word_bytes, a.word_endianness),
                          word_bytes, a.word_endianness)]
        ELSE IF max_seq_byte = None
        THEN LET phys == address_to_phys(a.word_address, a.address_bitlength,
                                         a.address_endianness)
             IN  IF phys.err # "" THEN Raise(phys.err, <<>>)
                 ELSE LET r == _read_i2c_device_memory(<<>>, env, a.device_address,
                                   phys.val, a.word_count * word_bytes, a.read_type,
                                   BackendAddressBitlength(a))
                      IN  IF r.err # "" THEN Raise(r.err, r.log)
                          ELSE [err |-> "", log |-> r.log,
                                ret |-> bytes_to_word_list(r.data, word_bytes,
                                                           a.word_endianness)]
        ELSE LET words_per_call == WordsPerCall(max_seq_byte[1], word_bytes)
             IN  IF words_per_call = 0 THEN Raise("ChunkTooSmall", <<>>)
                 ELSE LET sequential_calls == SequentialCalls(a.word_count, words_per_call)
                          r == ReadLoop(a, env, 0, sequential_calls, words_per_call,
                                        word_bytes,
                                        [err |-> "", data |-> <<>>, log |-> <<>>])
                      IN  IF r.err # "" THEN Raise(r.err, r.log)
                          ELSE [err |-> "", log |-> r.log,
                                ret |-> bytes_to_word_list(r.data, word_bytes,
                                                           a.word_endianness)]

\* a slice that starts at the first word every time
ThisData_FromStart(data, i, words_per_call, this_block_words) ==
    SubSeq(data, 1, this_block_words)

\* data[i * words_per_call : i * words_per_call + this_block_words]
ThisData(data, i, words_per_call, this_block_words) ==
    SubSeq(data, i * words_per_call + 1, i * words_per_call + this_block_words)

RECURSIVE WriteLoop(_, _, _, _, _, _, _)
\* iterations i, i+1, ... of the loop of write_device_memory; acc is [err, log]
WriteLoop(a, env, i, sequential_calls, words_per_call, word_bytes, acc) ==
    IF i >= sequential_calls THEN acc
    ELSE LET word_count == Len(a.data)
             this_block_address == ThisBlockAddress(a.word_address, i, words_per_call)
             this_block_words == ThisBlockWords(words_per_call, word_count, i)
             this_data == ThisData(a.data, i, words_per_call, this_block_words)
             phys == address_to_phys(this_block_address, a.address_bitlength,
                                     a.address_endianness)
         IN  IF phys.err # "" THEN [err |-> phys.err, log |-> acc.log]
             ELSE LET this_byte_data == word_list_to_bytes(this_data, word_bytes,
                                                           a.word_endianness)
                      r == _write_i2c_device_memory(acc.log, env, a.device_address,
                                                    phys.val, this_byte_data,
                                                    a.write_type,
                                                    BackendAddressBitlength(a))
                  IN  IF r.err # "" THEN [err |-> r.err, log |-> r.log]
                      ELSE WriteLoop(a, env, i + 1, sequential_calls, words_per_call,
                                     word_bytes,
                                     [err |-> "",
                                      log |-> r.log \o DelayAfter(i, sequential_calls)])

write_device_memory(a, env) ==
    LET pre == Precondition(a, a.write_type, WriteModeCheck)
        word_bytes == CeilDiv(a.word_bitlength, 8)
        word_count == Len(a.data)
    IN  IF pre # "" THEN Raise(pre, <<>>)
        ELSE IF no_connect THEN [err |-> "", ret |-> <<>>, log |-> <<>>]
        ELSE IF max_seq_byte = None
        THEN LET phys == address_to_phys(a.word_address, a.address_bitlength,
                                         a.address_endianness)
             IN  IF phys.err # "" THEN Raise(phys.err, <<>>)
                 ELSE LET byte_data == word_list_to_bytes(a.data, word_bytes,
                                                          a.word_endianness)
                          r == _write_i2c_device_memory(<<>>, env, a.device_address,
                                                        phys.val, byte_data,
                                                        a.write_type,
                                                        BackendAddressBitlength(a))
                      IN  [err |-> r.err, ret |-> <<>>, log |-> r.log]
        ELSE LET words_per_call == WordsPerCall(max_seq_byte[1], word_bytes)
             IN  IF words_per_call = 0 THEN Raise("ChunkTooSmall", <<>>)
                 ELSE LET sequential_calls == SequentialCalls(word_count, words_per_call)
                          r == WriteLoop(a, env, 0, sequential_calls, words_per_call,
                                         word_bytes, [err |-> "", log |-> <<>>])
                      IN  [err |-> r.err, ret |-> <<>>, log |-> r.log]

\* a probe that does not look at the emulation flag
check_i2c_device_IgnoresNoConnect(device_address, env) ==
    IF ~device_address.isint THEN [err |-> "FormatError", ret |-> FALSE, log |-> <<>>]
    ELSE IF ~is_connected THEN [err |-> "", ret |-> FALSE, log |-> <<>>]
    ELSE LET r == _check_i2c_device(<<>>, env, device_address)
         IN  IF r.err # "" THEN [err |-> r.err, ret |-> FALSE, log |-> r.log]
             ELSE [err |-> "", ret |-> r.data, log |-> r.log]

check_i2c_device(device_address, env) ==
    IF ~device_address.isint THEN [err |-> "FormatError", ret |-> FALSE, log |-> <<>>]
    ELSE IF ~is_connected \/ no_connect THEN [err |-> "", ret |-> FALSE, log |-> <<>>]
    ELSE LET r == _check_i2c_device(<<>>, env, device_address)
         IN  IF r.err # "" THEN [err |-> r.err, ret |-> FALSE, log |-> r.log]
             ELSE [err |-> "", ret |-> r.data, log |-> r.log]

\* connect and disconnect: USB_ISS_Helper inherits the methods of
\* I2C_Connection_Helper, which raise and assign nothing
connect == Raise("NotImplemented", <<>>)
disconnect == Raise("NotImplemented", <<>>)

----------------------------------------------------------------------------
(* i2c_usb_iss_helper.py: the opcode encoder _direct_i2c *)

\* an elif chain that copies one entry too few
ArgCount_Short(command) ==
    IF IsIn(WriteNames, command.name) THEN IndexOf(WriteNames, command.name) - 1 ELSE 0

\* the number of entries the elif chain copies after the opcode
ArgCount(command) ==
    IF IsIn(WriteNames, command.name) THEN IndexOf(WriteNames, command.name) ELSE 0

\* an encoder that does not check the opcode
IsKnown_Always(command) == TRUE

\* command not in I2CMessages
IsKnown(command) == command \in I2CMessages

\* a step of idx that decodes every entry as an opcode
Advance_EveryEntry(n) == 1

\* a step of idx that forgets the opcode itself
Advance_Short(n) == IF n = 0 THEN 1 ELSE n

\* the step of idx after an opcode with n arguments
Advance(n) == n + 1

RECURSIVE EncodeLoop(_, _, _)
\* the while loop of _direct_i2c from position idx (0-based) on;
\* returns [err, buf]
EncodeLoop(commands, idx, direct_msg) ==
    IF idx >= Len(commands) THEN [err |-> "", buf |-> direct_msg]
    ELSE LET command == commands[idx + 1]
         IN  IF ~IsKnown(command)
             THEN [err |-> "UnknownOpcode", buf |-> direct_msg]
             ELSE LET n == ArgCount(command)
                  IN  IF idx + n > Len(commands) - 1
                      THEN [err |-> "IndexError", buf |-> direct_msg]
                      ELSE EncodeLoop(commands, idx + Advance(n),
                                      direct_msg \o <<IntTok(command.value)>>
                                      \o SubSeq(commands, idx + 2, idx + 1 + n))

_direct_i2c(commands, env) ==
    LET enc == EncodeLoop(commands, 0, <<>>)
    IN  IF enc.err # "" THEN [err |-> enc.err, ret |-> <<>>, log |-> <<>>]
        ELSE LET got == ReadTotal(enc.buf, 1) - env.short
                 r == Transport(<<>>, env, "direct", PyInt(0), 0, 0, <<>>, enc.buf,
                                DeviceBytes(env, 0, IF got < 0 THEN 0 ELSE got))
             IN  [err |-> r.err, ret |-> r.data, log |-> r.log]

----------------------------------------------------------------------------
(* The inputs of the calls *)

DeviceAddresses == {PyInt(33), PyInt(128), PyStr}
WordAddresses == {4862}
WordCounts == {0, 1, 3, MaxWords}
AddressBitlengths == {8, 16, 24}
Endiannesses == {"little", "big", "middle"}
WordBitlengths == {8, 12, 16, 24}
Modes == {"Normal", "Repeated Start", "Burst"}
Limits == {None, Some(2), Some(8), Some(-3)}

\* the words of a block write: n words of one of two families
WordData(n, wide) ==
    [k \in 1..n |-> IF wide THEN (k * 4660 + 171) % 65536 ELSE (k * 37) % 256]

ReadArgs ==
    [device_address : DeviceAddresses, word_address : WordAddresses,
     word_count : WordCounts, address_bitlength : AddressBitlengths,
     address_endianness : Endiannesses, word_bitlength : WordBitlengths,
     word_endianness : Endiannesses, read_type : Modes]

\* emulated reads of more bytes than a byte has values
EmulatedWordCounts == {257}
EmulatedReadArgs ==
    [device_address : DeviceAddresses, word_address : WordAddresses,
     word_count : EmulatedWordCounts, address_bitlength : AddressBitlengths,
     address_endianness : Endiannesses, word_bitlength : WordBitlengths,
     word_endianness : Endiannesses, read_type : Modes]

WriteArgs ==
    [device_address : DeviceAddresses, word_address : WordAddresses,
     data : {WordData(n, wide) : n \in WordCounts, wide \in BOOLEAN},
     address_bitlength : AddressBitlengths,
     address_endianness : Endiannesses, word_bitlength : WordBitlengths,
     word_endianness : Endiannesses, write_type : Modes]

BackendReadArgs ==
    [device_address : {PyInt(33)}, word_address : WordAddresses,
     byte_count : 0..MaxByteCount, read_type : Modes, address_bitlength : AddressBitlengths]

\* the entries of an enumerated token stream
StreamEntries ==
    {Msg("STOP"), Msg("WRITE1"), Msg("WRITE2"), Msg("WRITE16"),
     IntTok(170), IntTok(187), IntTok(49)}

RECURSIVE SeqsUpTo(_, _)
\* the sequences over S of length at most n
SeqsUpTo(S, n) ==
    IF n = 0 THEN {<<>>}
    ELSE LET shorter == SeqsUpTo(S, n - 1)
         IN  shorter \cup {Append(s, e) : s \in {t \in shorter : Len(t) = n - 1},
                                          e \in S}

\* a WRITE-n with its n arguments, then STOP
LongStream(n) ==
    <<Msg(WriteNames[n])>> \o [k \in 1..n |-> IntTok(k)] \o <<Msg("STOP")>>

TokenStreams == SeqsUpTo(StreamEntries, MaxStream) \cup {LongStream(n) : n \in 1..16}

\* the inputs of the packing functions
PackBytelengths == {1, 2, 4}
PackWords(bytelength) ==
    IF bytelength = 1 THEN {0, 1, 128, 255}
    ELSE IF bytelength = 2 THEN {0, 4660, 65280, 65535}
    ELSE {0, 305419896, 16711808, 2147483647}

\* the inputs of the byte swaps: 16-bit values and wider ones
Swap16Values ==
    {0, 1, 128, 255, 256, 4660, 13330, 32768, 43981, 65280, 65535,
     65536, 65537, 201268, 16777215, 305419896}
Swap32Values ==
    {Wide(hi, lo) : hi \in {0, 1, 255, 4660, 32768, 57005, 65535, 65536, 660020},
                    lo \in {0, 1, 255, 22136, 48879, 65280, 65535}}

\* the inputs of address_to_phys
PhysAddresses == {0, 33, 8467, 65407, 561394772, 2130706559}
PhysBitlengths == {0, 8, 12, 16, 24, 32, 64}

\* the inputs of bytes_to_word_list on its own
UnpackBytelengths == {1, 2, 3}
UnpackBytes == {0, 1, 255}

\* the inputs of valid_i2c_address
AddressValues ==
    {PyStr, PyInt(-128), PyInt(-1), PyInt(0), PyInt(1), PyInt(33), PyInt(127),
     PyInt(128), PyInt(255), PyInt(256), PyInt(65569)}

Envs(fails, shorts, presents) ==
    [fail_at : fails, seed : {90}, short : shorts, present : presents, reg_bytes : {1}]

----------------------------------------------------------------------------
(* The state machine *)

Idle == [op |-> "idle"]

Done(op, a, env, r) ==
    [op |-> op, a |-> a, env |-> env, err |-> r.err, ret |-> r.ret, log |-> r.log]

\* after construction: I2C_Connection_Helper.__init__ leaves the helper
\* disconnected, USB_ISS_Helper.__init__ leaves it connected
Init ==
    /\ is_connected \in BOOLEAN
    /\ no_connect \in BOOLEAN
    /\ max_seq_byte \in Limits
    /\ last = Idle

\* the device a read is made of holds one word of the read in a register
WordAddressed(env, word_bitlength) ==
    [env EXCEPT !.reg_bytes = CeilDiv(word_bitlength, 8)]

ReadDeviceMemory ==
    /\ last.op = "idle"
    /\ \E a \in ReadArgs \cup (IF no_connect THEN EmulatedReadArgs ELSE {}),
          env0 \in Envs({0, 1, 2}, {0, 1}, {TRUE}) :
          LET env == WordAddressed(env0, a.word_bitlength)
          IN  last' = Done("read", a, env, read_device_memory(a, env))
    /\ UNCHANGED <<is_connected, no_connect, max_seq_byte>>

WriteDeviceMemory ==
    /\ last.op = "idle"
    /\ \E a \in WriteArgs, env \in Envs({0, 1, 2}, {0}, {TRUE}) :
          last' = Done("write", a, env, write_device_memory(a, env))
    /\ UNCHANGED <<is_connected, no_connect, max_seq_byte>>

CheckI2CDevice ==
    /\ last.op = "idle"
    /\ \E d \in DeviceAddresses \cup {PyInt(-1)}, env \in Envs({0, 1}, {0}, BOOLEAN) :
          last' = Done("check", [device_address |-> d], env, check_i2c_device(d, env))
    /\ UNCHANGED <<is_connected, no_connect, max_seq_byte>>

DirectI2C ==
    /\ last.op = "idle"
    /\ \E commands \in TokenStreams, env \in Envs({0, 1}, {0}, {TRUE}) :
          last' = Done("direct", [commands |-> commands], env,
                       _direct_i2c(commands, env))
    /\ UNCHANGED <<is_connected, no_connect, max_seq_byte>>

\* a call of the backend primitive itself, with an address_bitlength
BackendRead ==
    /\ last.op = "idle"
    /\ is_connected
    /\ \E a \in BackendReadArgs, env \in Envs({0, 1}, {-1, 0, 1}, {TRUE}) :
          LET r == _read_i2c_device_memory(<<>>, env, a.device_address, a.word_address,
                                           a.byte_count, a.read_type,
                                           a.address_bitlength)
          IN  last' = Done("backend_read", a, env,
                           [err |-> r.err, ret |-> r.data, log |-> r.log])
    /\ UNCHANGED <<is_connected, no_connect, max_seq_byte>>

NoEnv == [fail_at |-> 0, seed |-> 0, short |-> 0, present |-> TRUE, reg_bytes |-> 1]

\* functions.word_list_to_bytes on a list of words
WordListToBytes ==
    /\ last.op = "idle"
    /\ \E bytelength \in PackBytelengths, endianness \in Endiannesses :
          \E word_list \in SeqsUpTo(PackWords(bytelength), MaxPack) :
             last' = Done("pack",
                          [word_list |-> word_list, bytelength |-> bytelength,
                           endianness |-> endianness],
                          NoEnv,
                          [err |-> "", log |-> <<>>,
                           ret |-> word_list_to_bytes(word_list, bytelength, endianness)])
    /\ UNCHANGED <<is_connected, no_connect, max_seq_byte>>

\* functions.bytes_to_word_list on the bytes word_list_to_bytes returned
BytesToWordList ==
    /\ last.op = "pack"
    /\ last' = Done("unpack",
                    [byte_list |-> last.ret, bytelength |-> last.a.bytelength,
                     endianness |-> last.a.endianness, word_list |-> last.a.word_list],
                    NoEnv,
                    [err |-> "", log |-> <<>>,
                     ret |-> bytes_to_word_list(last.ret, last.a.bytelength,
                                                last.a.endianness)])
    /\ UNCHANGED <<is_connected, no_connect, max_seq_byte>>

\* functions.swap_endian_16bit and functions.swap_endian_32bit on a value
SwapEndian16 ==
    /\ last.op = "idle"
    /\ \E value \in Swap16Values :
          last' = Done("swap16", [value |-> value], NoEnv,
                       [err |-> "", log |-> <<>>, ret |-> swap_endian_16bit(value)])
    /\ UNCHANGED <<is_connected, no_connect, max_seq_byte>>

SwapEndian32 ==
    /\ last.op = "idle"
    /\ \E value \in Swap32Values :
          last' = Done("swap32", [value |-> value], NoEnv,
                       [err |-> "", log |-> <<>>, ret |-> swap_endian_32bit(value)])
    /\ UNCHANGED <<is_connected, no_connect, max_seq_byte>>

\* the same function on the value it returned; first is the first input
SwapEndian16Again ==
    /\ last.op = "swap16"
    /\ last' = Done("swap16_again", [value |-> last.ret, first |-> last.a.value], NoEnv,
                    [err |-> "", log |-> <<>>, ret |-> swap_endian_16bit(last.ret)])
    /\ UNCHANGED <<is_connected, no_connect, max_seq_byte>>

SwapEndian32Again ==
    /\ last.op = "swap32"
    /\ last' = Done("swap32_again", [value |-> last.ret, first |-> last.a.value], NoEnv,
                    [err |-> "", log |-> <<>>, ret |-> swap_endian_32bit(last.ret)])
    /\ UNCHANGED <<is_connected, no_connect, max_seq_byte>>

\* functions.address_to_phys on an address
AddressToPhys ==
    /\ last.op = "idle"
    /\ \E address \in PhysAddresses, bitlength \in PhysBitlengths,
          endianness \in valid_endianness :
          LET r == address_to_phys(address, bitlength, endianness)
          IN  last' = Done("phys",
                           [address |-> address, bitlength |-> bitlength,
                            endianness |-> endianness],
                           NoEnv, [err |-> r.err, log |-> <<>>, ret |-> r.val])
    /\ UNCHANGED <<is_connected, no_connect, max_seq_byte>>

\* functions.bytes_to_word_list on a list of bytes
UnpackByteList ==
    /\ last.op = "idle"
    /\ \E byte_list \in SeqsUpTo(UnpackBytes, MaxBytes), bytelength \in UnpackBytelengths,
          endianness \in valid_endianness :
          last' = Done("unpack_bytes",
                       [byte_list |-> byte_list, bytelength |-> bytelength,
                        endianness |-> endianness],
                       NoEnv,
                       [err |-> "", log |-> <<>>,
                        ret |-> bytes_to_word_list(byte_list, bytelength, endianness)])
    /\ UNCHANGED <<is_connected, no_connect, max_seq_byte>>

\* functions.valid_i2c_address on a value
ValidI2CAddress ==
    /\ last.op = "idle"
    /\ \E value \in AddressValues :
          last' = Done("valid", [value |-> value], NoEnv,
                       [err |-> "", log |-> <<>>, ret |-> valid_i2c_address(value)])
    /\ UNCHANGED <<is_connected, no_connect, max_seq_byte>>

\* connect() and disconnect() on the helper; was_connected is the state the
\* call was made in
Connect ==
    /\ last.op = "idle"
    /\ last' = Done("connect", [was_connected |-> is_connected], NoEnv, connect)
    /\ UNCHANGED <<is_connected, no_connect, max_seq_byte>>

Disconnect ==
    /\ last.op = "idle"
    /\ last' = Done("disconnect", [was_connected |-> is_connected], NoEnv, disconnect)
    /\ UNCHANGED <<is_connected, no_connect, max_seq_byte>>

\* the caller takes the result of the call
Return ==
    /\ last.op # "idle"
    /\ last' = Idle
    /\ UNCHANGED <<is_connected, no_connect, max_seq_byte>>

Next ==
    \/ ReadDeviceMemory
    \/ WriteDeviceMemory
    \/ CheckI2CDevice
    \/ DirectI2C
    \/ BackendRead
    \/ WordListToBytes
    \/ BytesToWordList
    \/ AddressToPhys
    \/ UnpackByteList
    \/ ValidI2CAddress
    \/ Connect
    \/ Disconnect
    \/ SwapEndian16
    \/ SwapEndian32
    \/ SwapEndian16Again
    \/ SwapEndian32Again
    \/ Return

Spec == Init /\ [][Next]_vars

----------------------------------------------------------------------------
(* What the claims speak of *)

\* the backend block reads, the backend primitives and the transport calls
\* of the last call, in issue order
BlockReads == SelectSeq(last.log, LAMBDA e : e.ev = "block_read")
SubCalls == SelectSeq(last.log, LAMBDA e : e.ev \in PrimitiveEvs)
TransportCalls == SelectSeq(last.log, LAMBDA e : e.ev \in TransportEvs)
DirectCalls == SelectSeq(last.log, LAMBDA e : e.ev = "direct")

\* the last call was made on a connected engine that is not emulated and
\* has a per-call byte limit
Chunked == is_connected /\ ~no_connect /\ max_seq_byte # None

AddressIn7Bits(d) == d.isint /\ d.v >= 0 /\ d.v <= 127
LittleOrBig(e) == e = "little" \/ e = "big"
LastMode == IF last.op = "read" THEN last.a.read_type ELSE last.a.write_type
ModeSupported ==
    IF last.op = "read" THEN LastMode = "Normal" \/ LastMode = "Repeated Start"
    ELSE LastMode = "Normal"
InputsValid ==
    /\ AddressIn7Bits(last.a.device_address)
    /\ LittleOrBig(last.a.address_endianness)
    /\ LittleOrBig(last.a.word_endianness)

----------------------------------------------------------------------------
(* C1..C5: the chunked transaction engine *)

\* C1: a chunked read of n words with wpc = floor(L/wb) >= 1 issues
\* ceil(n/wpc) backend block reads when it returns, and never more; the
\* i-th (i = 0, 1, ...) asks for min(wpc, n - i*wpc)*wb bytes at
\* address_to_phys(start + i*wpc).
C1_ChunkedReadCalls ==
    (last.op = "read" /\ Chunked /\ InputsValid /\ ModeSupported) =>
        LET a == last.a
            wb == (a.word_bitlength + 7) \div 8
            wpc == max_seq_byte[1] \div wb
            n == a.word_count
            k == (n + wpc - 1) \div wpc
        IN  wpc >= 1 =>
              /\ Len(BlockReads) <= k
              /\ last.err = "" => Len(BlockReads) = k
              /\ \A i \in 1..Len(BlockReads) :
                    /\ BlockReads[i].n = Min(wpc, n - (i - 1) * wpc) * wb
                    /\ BlockReads[i].addr =
                         address_to_phys(a.word_address + (i - 1) * wpc,
                                         a.address_bitlength, a.address_endianness).val

C1_Witness ==
    /\ last.op = "read" /\ Chunked /\ last.err = ""
    /\ max_seq_byte = Some(8) /\ last.a.word_bitlength = 16 /\ last.a.word_count = 10
    /\ Len(BlockReads) = 3
    /\ BlockReads[1].n = 8 /\ BlockReads[2].n = 8 /\ BlockReads[3].n = 4
    /\ BlockReads[3].addr = last.a.word_address + 8

\* C2: a chunked read or write that issues k >= 1 sub-calls waits the
\* inter-call delay exactly k-1 times, never before the first sub-call and
\* never after the last one.
C2_DelayOnlyBetweenSubCalls ==
    (last.op \in {"read", "write"} /\ Chunked /\ last.err = "" /\ Len(SubCalls) >= 1) =>
        /\ CountEv(last.log, {"sleep"}) = Len(SubCalls) - 1
        /\ last.log[1].ev # "sleep"
        /\ last.log[Len(last.log)].ev # "sleep"

\* C3: on a connected engine a read or write with an invalid device address,
\* an invalid endianness or an access mode the operation does not support
\* fails and issues no backend call and no delay.
C3_InputErrorsPrecedeTransport ==
    (last.op \in {"read", "write"} /\ is_connected /\ ~(InputsValid /\ ModeSupported)) =>
        /\ last.err # ""
        /\ last.log = <<>>

\* C4: write_device_memory with a mode other than 'Normal' fails with
\* InvalidMode before any backend call, with emulation on or off.
C4_WriteModeValidated ==
    (last.op = "write" /\ is_connected /\ InputsValid
       /\ last.a.write_type \notin {"Normal"}) =>
        /\ last.err = "InvalidMode"
        /\ last.log = <<>>

\* C5: a Normal-mode read or write that reaches the backend uses the
\* 1-byte-address primitive for address bit width 8, the 2-byte-address
\* primitive for 16, and fails with UnsupportedWidth without any transfer
\* for every other width.
C5_AddressWidthDispatch ==
    (last.op \in {"read", "write"} /\ LastMode = "Normal" /\ Len(SubCalls) >= 1
       /\ SubCalls[1].n >= 1) =>
        IF last.a.address_bitlength = 8
        THEN \A i \in 1..Len(TransportCalls) :
                TransportCalls[i].ev \in {"read_ad1", "write_ad1"}
        ELSE IF last.a.address_bitlength = 16
        THEN \A i \in 1..Len(TransportCalls) :
                TransportCalls[i].ev \in {"read_ad2", "write_ad2"}
        ELSE last.err = "UnsupportedWidth" /\ TransportCalls = <<>>

----------------------------------------------------------------------------
(* C6: the packing functions *)

\* C6: for endianness big or little, word byte width 1, 2 or 4 and every
\* list W of words that fit the width, bytes_to_word_list of
\* word_list_to_bytes of W is W.
C6_PackingRoundTrip ==
    (last.op = "unpack" /\ LittleOrBig(last.a.endianness)
       /\ last.a.bytelength \in {1, 2, 4}) =>
        last.ret = last.a.word_list

C6_Witness ==
    /\ last.op = "unpack"
    /\ last.a.endianness = "little" /\ last.a.bytelength = 4
    /\ last.a.word_list = <<305419896, 16711808>>
    /\ last.a.byte_list = <<120, 86, 52, 18, 128, 0, 255, 0>>
    /\ last.ret = last.a.word_list

----------------------------------------------------------------------------
(* C7..C9: the opcode encoder _direct_i2c *)

\* the number of entries a token takes as its arguments: N for WRITE-N
TokenArgs(t) ==
    IF t.cls = "I2CMessages" /\ IsIn(WriteNames, t.name)
    THEN IndexOf(WriteNames, t.name) ELSE 0

RECURSIVE OpcodePositions(_, _)
\* the positions (1-based) of a token stream that hold opcodes, from opcode
\* position p on: the scan stops at an entry that is no known opcode and at
\* a WRITE-N with fewer than N entries after it
OpcodePositions(commands, p) ==
    IF p > Len(commands) THEN {}
    ELSE IF commands[p] \notin I2CMessages THEN {p}
    ELSE IF p + TokenArgs(commands[p]) > Len(commands) THEN {p}
    ELSE {p} \cup OpcodePositions(commands, p + TokenArgs(commands[p]) + 1)

\* a WRITE-N at an opcode position has fewer than N entries after it
Truncated(commands) ==
    \E p \in OpcodePositions(commands, 1) :
        /\ commands[p] \in I2CMessages
        /\ p + TokenArgs(commands[p]) > Len(commands)

\* an entry at an opcode position is no known opcode
HasUnknownOpcode(commands) ==
    \E p \in OpcodePositions(commands, 1) : commands[p] \notin I2CMessages

\* C7: for a token stream in which every WRITE-N is followed by at least N
\* entries, _direct_i2c hands the direct-execution primitive exactly one
\* buffer, as long as the stream, holding at each opcode position the
\* opcode's value and at each argument position the entry itself.
C7_EncoderPositionExact ==
    (last.op = "direct" /\ ~Truncated(last.a.commands)
       /\ ~HasUnknownOpcode(last.a.commands)) =>
        LET commands == last.a.commands
            ops == OpcodePositions(commands, 1)
        IN  /\ Len(DirectCalls) = 1
            /\ Len(TransportCalls) = 1
            /\ Len(DirectCalls[1].buf) = Len(commands)
            /\ \A p \in 1..Len(commands) :
                  DirectCalls[1].buf[p] =
                      IF p \in ops THEN IntTok(commands[p].value) ELSE commands[p]

C7_Witness ==
    /\ last.op = "direct"
    /\ last.a.commands = <<Msg("WRITE2"), IntTok(170), IntTok(187), Msg("STOP")>>
    /\ Len(DirectCalls) = 1
    /\ DirectCalls[1].buf = <<IntTok(49), IntTok(170), IntTok(187), IntTok(3)>>

\* C8: if a WRITE-N has fewer than N entries after it, _direct_i2c fails and
\* the direct-execution primitive is never invoked.
C8_TruncatedArgumentsFail ==
    (last.op = "direct" /\ Truncated(last.a.commands)) =>
        /\ last.err # ""
        /\ last.log = <<>>

C8_Witness ==
    /\ last.op = "direct"
    /\ last.a.commands = <<Msg("STOP"), Msg("WRITE2"), IntTok(170)>>
    /\ last.err = "IndexError"
    /\ last.log = <<>>

----------------------------------------------------------------------------
(* C10: the repeated-start read of the backend *)

\* the stream the claim spells out, for device address d, register address
\* r, address bit width w and byte count N
ClaimedStream(d, r, w, N) ==
    <<I2CDirect("START")>>
    \o (IF w = 8
        THEN <<I2CDirect("WRITE2"), IntTok(2 * d), IntTok(r % 256)>>
        ELSE <<I2CDirect("WRITE3"), IntTok(2 * d), IntTok((r \div 256) % 256),
               IntTok(r % 256)>>)
    \o <<I2CDirect("RESTART"), I2CDirect("WRITE1"), IntTok(2 * d + 1)>>
    \o (IF N > 1 THEN <<I2CDirect(ReadNames[N - 1])>> ELSE <<>>)
    \o <<I2CDirect("NACK"), I2CDirect("READ1"), I2CDirect("STOP")>>

RECURSIVE BytesAskedFor(_)
\* the bytes the READ-k opcodes of a stream ask for, by the opcodes' names
BytesAskedFor(stream) ==
    IF stream = <<>> THEN 0
    ELSE (IF Head(stream).cls = "I2CDirect" /\ IsIn(ReadNames, Head(stream).name)
          THEN IndexOf(ReadNames, Head(stream).name) ELSE 0)
         + BytesAskedFor(Tail(stream))

\* C10: a repeated-start read of N in 1..16 bytes with address bit width 8
\* or 16 hands the backend exactly the stream START, WRITE2/WRITE3, address
\* bytes, RESTART, WRITE1, read address, READ(N-1) if N > 1, NACK, READ1,
\* STOP; its read opcodes ask for N bytes and NACK precedes the last READ1.
C10_RepeatedStartStream ==
    (last.op = "backend_read" /\ last.a.read_type = "Repeated Start"
       /\ last.a.byte_count \in 1..16 /\ last.a.address_bitlength \in {8, 16}) =>
        /\ Len(DirectCalls) = 1
        /\ Len(TransportCalls) = 1
        /\ LET buf == DirectCalls[1].buf
           IN  /\ buf = ClaimedStream(last.a.device_address.v, last.a.word_address,
                                      last.a.address_bitlength, last.a.byte_count)
               /\ BytesAskedFor(buf) = last.a.byte_count
               /\ buf[Len(buf) - 2] = I2CDirect("NACK")
               /\ buf[Len(buf) - 1] = I2CDirect("READ1")

C10_Witness ==
    /\ last.op = "backend_read" /\ last.a.read_type = "Repeated Start"
    /\ last.a.byte_count = 16 /\ last.a.address_bitlength = 16
    /\ last.err = ""
    /\ Len(DirectCalls) = 1
    /\ DirectCalls[1].buf[9] = I2CDirect("READ15")
    /\ Len(last.ret) = 16

----------------------------------------------------------------------------
(* C11, C12: the capacity and the length check of the repeated-start read *)

\* the last call was a repeated-start read of the backend primitive with a
\* supported address bit width
RepeatedStartRead ==
    /\ last.op = "backend_read"
    /\ last.a.read_type = "Repeated Start"
    /\ last.a.address_bitlength \in {8, 16}

\* the number of bytes the transport returned for the executed stream
ReturnedCount ==
    LET got == BytesAskedFor(DirectCalls[1].buf) - last.env.short
    IN  IF got < 0 THEN 0 ELSE got

\* C11: a repeated-start read of 16 bytes is accepted and its opcode stream
\* executed; one of 17 bytes or more fails with CapacityExceeded and no
\* transport call is made.
C11_RepeatedStartCapacity ==
    RepeatedStartRead =>
        /\ last.a.byte_count = 16 =>
              /\ Len(DirectCalls) = 1
              /\ last.err # "CapacityExceeded"
              /\ (last.env.fail_at = 0 /\ last.env.short = 0) =>
                    (last.err = "" /\ Len(last.ret) = 16)
        /\ last.a.byte_count >= 17 =>
              /\ last.err = "CapacityExceeded"
              /\ TransportCalls = <<>>
              /\ last.ret = <<>>

C11_Witness ==
    /\ RepeatedStartRead
    /\ last.a.byte_count = 17
    /\ last.err = "CapacityExceeded"
    /\ TransportCalls = <<>>

\* C12: once the opcode stream of a repeated-start read has been executed,
\* the call returns the bytes if as many came back as were asked for, and
\* fails with ShortRead and no data for any other number.
C12_RepeatedStartLength ==
    (RepeatedStartRead /\ Len(DirectCalls) = 1 /\ last.err # "TransportError") =>
        IF ReturnedCount = last.a.byte_count
        THEN last.err = "" /\ Len(last.ret) = last.a.byte_count
        ELSE last.err = "ShortRead" /\ last.ret = <<>>

C12_Witness ==
    /\ RepeatedStartRead
    /\ last.a.byte_count = 5 /\ last.env.short = 1
    /\ Len(DirectCalls) = 1
    /\ last.err = "ShortRead"
    /\ last.ret = <<>>

----------------------------------------------------------------------------
(* C13..C15: the connection state and the emulation flag *)

\* C13: on a disconnected helper every read_device_memory and every
\* write_device_memory fails with NotConnected, whatever its other arguments
\* and the emulation flag, and no backend call is made.
C13_DisconnectedRejects ==
    (last.op \in {"read", "write"} /\ ~is_connected) =>
        /\ last.err = "NotConnected"
        /\ last.ret = <<>>
        /\ last.log = <<>>

C13_Witness ==
    /\ last.op = "write" /\ ~is_connected /\ no_connect
    /\ ~valid_i2c_address(last.a.device_address)
    /\ last.a.write_type = "Burst"
    /\ last.a.word_endianness = "middle"
    /\ last.err = "NotConnected"
    /\ last.log = <<>>

\* C14: the connection is either connected or disconnected, and a
\* disconnect() on a connected helper returns normally and leaves it
\* disconnected.
C14_DisconnectLeavesDisconnected ==
    /\ is_connected \in BOOLEAN
    /\ (last.op = "disconnect" /\ last.a.was_connected) =>
          (last.err = "" /\ ~is_connected)

\* C15: with the emulation flag set, no check_i2c_device, read_device_memory
\* or write_device_memory reaches a backend primitive or the transport or
\* waits the delay; a write that is accepted does nothing and a probe reports
\* the device absent.
C15_EmulationNeverTouchesTransport ==
    (no_connect /\ last.op \in {"check", "read", "write"}) =>
        /\ last.log = <<>>
        /\ (last.op = "check" /\ last.err = "") => last.ret = FALSE
        /\ last.op = "write" => last.ret = <<>>

C15_Witness ==
    /\ no_connect /\ is_connected
    /\ last.op = "check"
    /\ last.a.device_address = PyInt(33)
    /\ last.env.present
    /\ last.err = "" /\ last.ret = FALSE
    /\ last.log = <<>>

----------------------------------------------------------------------------
(* C16: the emulated read of a single word *)

\* the last call was an accepted emulated read of one word
EmulatedSingleWordRead ==
    /\ last.op = "read"
    /\ is_connected /\ no_connect
    /\ InputsValid /\ ModeSupported
    /\ last.a.word_count = 1

\* the endianness that is not e
OtherEndianness(e) == IF e = "big" THEN "little" ELSE "big"

\* C16 as claimed: the emulated read of one multi-byte word returns one
\* element whose only non-zero byte is 42, at the most significant end for
\* one word endianness and at the least significant end for the other, so
\* the same read with the other endianness returns another value.
C16_ByteDependsOnEndianness ==
    (EmulatedSingleWordRead /\ last.a.word_bitlength > 8) =>
        /\ last.err = "" /\ Len(last.ret) = 1
        /\ last.ret[1] \in {42, 42 * 256 ^ (CeilDiv(last.a.word_bitlength, 8) - 1)}
        /\ last.ret # read_device_memory(
                          [last.a EXCEPT !.word_endianness = OtherEndianness(@)],
                          last.env).ret

\* C16: the emulated read of one word returns a one-element list whose
\* element is 42, for a one-byte word and for a multi-byte word of either
\* word endianness: the 42 is the least significant byte and the other bytes
\* are zero.
C16_EmulatedSingleWord ==
    EmulatedSingleWordRead => (last.err = "" /\ last.ret = <<42>>)

C16_Witness ==
    /\ EmulatedSingleWordRead
    /\ last.a.word_bitlength = 24
    /\ last.a.word_endianness = "big"
    /\ last.ret = <<42>>

----------------------------------------------------------------------------
(* C17, C18: the chunking loop *)

\* the last call was a read or a write with valid inputs on a connected
\* engine that is not emulated and has a per-call byte limit
ChunkedCall ==
    /\ last.op \in {"read", "write"}
    /\ Chunked
    /\ InputsValid /\ ModeSupported

LastWordBytes == (last.a.word_bitlength + 7) \div 8
LastWordsPerCall == max_seq_byte[1] \div LastWordBytes
LastWordCount == IF last.op = "read" THEN last.a.word_count ELSE Len(last.a.data)

\* C17: with a per-call limit L and a word byte width wb for which
\* floor(L/wb) is not at least 1, a read or a write fails with ChunkTooSmall
\* and makes no backend call; it never returns.
C17_ChunkTooSmall ==
    (ChunkedCall /\ ~(LastWordsPerCall >= 1) /\ LastWordCount >= 1) =>
        /\ last.err = "ChunkTooSmall"
        /\ last.log = <<>>


\* the number of sub-calls the chunking plans for the last call
PlannedCalls == (LastWordCount + LastWordsPerCall - 1) \div LastWordsPerCall

\* address_to_phys converts the addresses of the last call
AddressConvertible ==
    last.a.address_endianness = "big" \/ last.a.address_bitlength \in {8, 16, 32}

\* C18: a chunked read or write issues its planned sub-calls in order, each
\* once.  When sub-call j fails, the call fails with that error right after
\* sub-call j, which is the last one issued, and a read returns no data; when
\* none fails, the call returns after exactly the planned number.
C18_StopAtFirstBackendError ==
    (ChunkedCall /\ LastWordsPerCall >= 1) =>
        /\ Len(SubCalls) <= PlannedCalls
        /\ \A i \in 1..Len(SubCalls) :
              SubCalls[i].addr =
                  address_to_phys(last.a.word_address + (i - 1) * LastWordsPerCall,
                                  last.a.address_bitlength,
                                  last.a.address_endianness).val
        /\ last.err = "" => Len(SubCalls) = PlannedCalls
        /\ last.err # "" =>
              /\ last.ret = <<>>
              /\ last.log # <<>> => last.log[Len(last.log)].ev # "sleep"
        /\ (last.env.fail_at \in 1..PlannedCalls /\ last.env.short = 0
               /\ AddressConvertible) =>
              /\ last.err = "TransportError"
              /\ Len(SubCalls) = last.env.fail_at
              /\ Len(TransportCalls) = last.env.fail_at

C18_Witness ==
    /\ ChunkedCall /\ last.op = "read"
    /\ LastWordsPerCall >= 1
    /\ PlannedCalls = 3
    /\ last.env.fail_at = 2
    /\ last.err = "TransportError"
    /\ Len(SubCalls) = 2
    /\ last.ret = <<>>

----------------------------------------------------------------------------
(* C19, C20: the byte swaps *)

\* the two bytes of a 16-bit value exchanged
BytesExchanged(x) == (x % 256) * 256 + x \div 256

\* C19: swapping twice gives back every value of the masked domain, 16-bit
\* values for swap_endian_16bit and 32-bit values for swap_endian_32bit;
\* swap_endian_16bit(0x1234) is 0x3412 and swap_endian_32bit(0x12345678) is
\* 0x78563412.
C19_SwapInvolution ==
    /\ (last.op = "swap16_again" /\ last.a.first < 65536) => last.ret = last.a.first
    /\ (last.op = "swap32_again" /\ last.a.first.hi < 65536) => last.ret = last.a.first
    /\ (last.op = "swap16" /\ last.a.value = 4660) => last.ret = 13330
    /\ (last.op = "swap32" /\ last.a.value = Wide(4660, 22136)) =>
          last.ret = Wide(30806, 13330)

C19_Witness ==
    /\ last.op = "swap32_again"
    /\ last.a.first = Wide(4660, 22136)
    /\ last.a.value = Wide(30806, 13330)
    /\ last.ret = Wide(4660, 22136)

\* C20: for a non-negative value wider than the width w of the swap, the
\* swap returns a value of [0, 2^w), the one it returns for the value modulo
\* 2^w; swap_endian_16bit(0x31234) is 0x3412 and
\* swap_endian_32bit(0xA12345678) is 0x78563412.
C20_SwapTruncates ==
    /\ (last.op = "swap16" /\ last.a.value >= 65536) =>
          /\ last.err = ""
          /\ last.ret \in 0..65535
          /\ last.ret = BytesExchanged(last.a.value % 65536)
    /\ (last.op = "swap32" /\ last.a.value.hi >= 65536) =>
          /\ last.err = ""
          /\ last.ret.hi \in 0..65535 /\ last.ret.lo \in 0..65535
          /\ last.ret = Wide(BytesExchanged(last.a.value.lo),
                             BytesExchanged(last.a.value.hi % 65536))
    /\ (last.op = "swap16" /\ last.a.value = 201268) => last.ret = 13330
    /\ (last.op = "swap32" /\ last.a.value = Wide(660020, 22136)) =>
          last.ret = Wide(30806, 13330)

C20_Witness ==
    /\ last.op = "swap32"
    /\ last.a.value = Wide(660020, 22136)
    /\ last.ret = Wide(30806, 13330)

----------------------------------------------------------------------------
(* C21..C23: the pure functions of functions.py *)

\* the four bytes of a 32-bit value in the opposite order
BytesReversed(x) ==
    (x % 256) * 16777216 + ((x \div 256) % 256) * 65536
    + ((x \div 65536) % 256) * 256 + ((x \div 16777216) % 256)

\* C21: address_to_phys with 'little' returns the address for bitlength 8,
\* its 16-bit byte swap for 16, its 32-bit byte swap for 32, and fails with
\* UnsupportedWidth for every other bitlength; with 'big' it returns the
\* address for every bitlength.  (0x2113, 16, little) gives 0x1321 and
\* (0x21763454, 32, little) gives 0x54347621.
C21_AddressToPhys ==
    last.op = "phys" =>
        LET a == last.a
        IN  IF a.endianness = "big" THEN last.err = "" /\ last.ret = a.address
            ELSE IF a.bitlength = 8 THEN last.err = "" /\ last.ret = a.address
            ELSE IF a.bitlength = 16
            THEN /\ last.err = ""
                 /\ last.ret = BytesExchanged(a.address % 65536)
                 /\ a.address = 8467 => last.ret = 4897
            ELSE IF a.bitlength = 32
            THEN /\ last.err = ""
                 /\ last.ret = BytesReversed(a.address)
                 /\ a.address = 561394772 => last.ret = 1412724257
            ELSE last.err = "UnsupportedWidth"

C21_Witness ==
    /\ last.op = "phys"
    /\ last.a = [address |-> 561394772, bitlength |-> 32, endianness |-> "little"]
    /\ last.err = "" /\ last.ret = 1412724257

\* C22: bytes_to_word_list of a byte list B with word byte width wb returns
\* floor(len(B)/wb) words; the bytes of word j are the bytes of the j-th
\* group of wb bytes of B, and the len(B) mod wb bytes after the last whole
\* group are left out without an error.
C22_TrailingGroupTruncated ==
    last.op = "unpack_bytes" =>
        LET B == last.a.byte_list
            wb == last.a.bytelength
            whole == (Len(B) \div wb) * wb
        IN  /\ last.err = ""
            /\ Len(last.ret) = Len(B) \div wb
            /\ \A j \in 1..Len(last.ret) : last.ret[j] \in 0..(256 ^ wb - 1)
            /\ word_list_to_bytes(last.ret, wb, last.a.endianness) = SubSeq(B, 1, whole)

C22_Witness ==
    /\ last.op = "unpack_bytes"
    /\ last.a.byte_list = <<1, 255, 0, 255, 1>>
    /\ last.a.bytelength = 2 /\ last.a.endianness = "big"
    /\ last.ret = <<511, 255>>

\* C23: valid_i2c_address returns true exactly for an integer of 0..127; for
\* a value that is no integer and for an integer below 0 or above 127 it
\* returns false, without raising.
C23_ValidAddress ==
    last.op = "valid" =>
        /\ last.err = ""
        /\ last.ret = (last.a.value.isint /\ last.a.value.v >= 0 /\ last.a.value.v <= 127)
        /\ last.a.value \in {PyStr, PyInt(-1), PyInt(128), PyInt(255)} => last.ret = FALSE

C23_Witness ==
    /\ last.op = "valid"
    /\ last.a.value = PyInt(128)
    /\ last.ret = FALSE

----------------------------------------------------------------------------
(* C24..C28: chunking and the data that crosses the backend *)

\* the backend block writes of the last call, in issue order
BlockWrites == SelectSeq(last.log, LAMBDA e : e.ev = "block_write")

RECURSIVE Payloads(_)
\* the payloads of a sequence of block writes, one after the other
Payloads(writes) ==
    IF writes = <<>> THEN <<>> ELSE Head(writes).data \o Payloads(Tail(writes))

\* C24: a chunked write of a word list D with wpc = floor(L/wb) >= 1 issues
\* ceil(len(D)/wpc) backend block writes when it returns, and never more; the
\* i-th (i = 0, 1, ...) carries word_list_to_bytes of the words
\* D[i*wpc .. i*wpc + min(wpc, len(D) - i*wpc) - 1] at
\* address_to_phys(start + i*wpc), and the payloads of a write that returns,
\* one after the other, are word_list_to_bytes(D).
C24_ChunkedWritePartition ==
    (ChunkedCall /\ last.op = "write" /\ LastWordsPerCall >= 1) =>
        LET a == last.a
            wb == LastWordBytes
            wpc == LastWordsPerCall
            n == Len(a.data)
        IN  /\ Len(BlockWrites) <= PlannedCalls
            /\ last.err = "" =>
                  /\ Len(BlockWrites) = PlannedCalls
                  /\ Payloads(BlockWrites) = word_list_to_bytes(a.data, wb, a.word_endianness)
            /\ \A i \in 1..Len(BlockWrites) :
                  /\ BlockWrites[i].data =
                        word_list_to_bytes(
                            SubSeq(a.data, (i - 1) * wpc + 1,
                                   (i - 1) * wpc + Min(wpc, n - (i - 1) * wpc)),
                            wb, a.word_endianness)
                  /\ BlockWrites[i].addr =
                        address_to_phys(a.word_address + (i - 1) * wpc,
                                        a.address_bitlength, a.address_endianness).val

C24_Witness ==
    /\ ChunkedCall /\ last.op = "write" /\ last.err = ""
    /\ max_seq_byte = Some(8) /\ last.a.word_bitlength = 16
    /\ last.a.word_endianness = "little"
    /\ Len(last.a.data) = 10
    /\ Len(BlockWrites) = 3
    /\ Len(BlockWrites[1].data) = 8 /\ Len(BlockWrites[3].data) = 4
    /\ BlockWrites[3].addr = last.a.word_address + 8

\* C25: in a chunked read or write with a limit L >= wb, every backend
\* sub-call transfers at least wb bytes, at most L bytes, and a whole
\* multiple of wb bytes.
C25_LimitNeverExceeded ==
    (ChunkedCall /\ max_seq_byte[1] >= LastWordBytes) =>
        \A i \in 1..Len(SubCalls) :
            /\ SubCalls[i].n >= LastWordBytes
            /\ SubCalls[i].n <= max_seq_byte[1]
            /\ SubCalls[i].n % LastWordBytes = 0

C25_Witness ==
    /\ ChunkedCall /\ last.op = "read" /\ last.err = ""
    /\ max_seq_byte = Some(8) /\ last.a.word_bitlength = 24
    /\ last.a.word_count = 3
    /\ Len(SubCalls) = 2
    /\ SubCalls[1].n = 6 /\ SubCalls[2].n = 3

\* the words of the registers the last read asks for, as one backend call
\* for the whole block returns them
RegisterWords ==
    bytes_to_word_list(
        DeviceBytes(last.env,
                    address_to_phys(last.a.word_address, last.a.address_bitlength,
                                    last.a.address_endianness).val,
                    last.a.word_count * LastWordBytes),
        LastWordBytes, last.a.word_endianness)

\* the last call was a read that returned, of a connected engine that is not
\* emulated, with valid inputs and a big-endian or 8-bit register address
ReadReturned ==
    /\ last.op = "read"
    /\ is_connected /\ ~no_connect
    /\ InputsValid /\ ModeSupported
    /\ last.a.address_endianness = "big" \/ last.a.address_bitlength = 8
    /\ last.err = ""

\* C26: against a device that holds one word in a register, a read of n
\* words that returns gives the n words of the registers start..start+n-1,
\* with a per-call limit L >= wb as with no limit: the chunked read returns
\* what the read in one backend call returns.
C26_ChunkingTransparent ==
    (ReadReturned /\ (max_seq_byte = None \/ max_seq_byte[1] >= LastWordBytes)) =>
        /\ Len(last.ret) = last.a.word_count
        /\ last.ret = RegisterWords

C26_Witness ==
    /\ ReadReturned
    /\ max_seq_byte = Some(8) /\ last.a.word_bitlength = 16
    /\ last.a.word_count = 10
    /\ Len(SubCalls) = 3
    /\ last.ret = RegisterWords
    /\ last.ret[1] # last.ret[5] /\ last.ret[5] # last.ret[9]

\* C27: every element of every payload write_device_memory hands to the
\* backend's block write is a byte, a value of 0..255, whatever the words and
\* the word bit width.
C27_OnlyBytesReachTransport ==
    (last.op = "write" /\ is_connected /\ ~no_connect /\ InputsValid /\ ModeSupported) =>
        \A i \in 1..Len(BlockWrites) :
            \A k \in 1..Len(BlockWrites[i].data) : BlockWrites[i].data[k] \in 0..255

\* C28: every word read_device_memory returns lies in [0, 2^(8*wb)) with
\* wb = ceil(word_bitlength/8), for a read of the backend and for an emulated
\* read of any number of words.
C28_ReadResultsFitWidth ==
    (last.op = "read" /\ last.err = "") =>
        \A j \in 1..Len(last.ret) : last.ret[j] \in 0..(256 ^ LastWordBytes - 1)

----------------------------------------------------------------------------
(* C29, C30: data bytes of the encoder, addresses of the probe *)

\* the positions (1-based) of a token stream taken as the arguments of a
\* WRITE-N at an opcode position
ArgPositions(commands) ==
    {q \in 1..Len(commands) :
        \E p \in OpcodePositions(commands, 1) :
            /\ commands[p] \in I2CMessages
            /\ p + TokenArgs(commands[p]) <= Len(commands)
            /\ p < q /\ q <= p + TokenArgs(commands[p])}

\* C29: an entry _direct_i2c takes as an argument of a WRITE-N is put into
\* the buffer as it is and is not decoded: it raises UnknownOpcode for no
\* value and takes no arguments of its own when its value is that of a
\* WRITE-k; every opcode moves the scan on by at least one entry.
C29_DataNeverDecoded ==
    last.op = "direct" =>
        LET commands == last.a.commands
        IN  /\ last.err = "UnknownOpcode" => HasUnknownOpcode(commands)
            /\ last.err = "IndexError" => Truncated(commands)
            /\ Len(DirectCalls) = 1 =>
                  /\ Len(DirectCalls[1].buf) = Len(commands)
                  /\ \A q \in ArgPositions(commands) :
                        DirectCalls[1].buf[q] = commands[q]
            /\ \A p \in OpcodePositions(commands, 1) :
                  commands[p] \in I2CMessages => Advance(ArgCount(commands[p])) >= 1

C29_Witness ==
    /\ last.op = "direct"
    /\ last.a.commands = <<Msg("WRITE2"), IntTok(49), Msg("WRITE16"), Msg("STOP")>>
    /\ last.err = ""
    /\ Len(DirectCalls) = 1
    /\ DirectCalls[1].buf = <<IntTok(49), IntTok(49), Msg("WRITE16"), IntTok(3)>>

\* C30: check_i2c_device makes no backend probe and no transport call for a
\* device address that is not an integer of 0..127.
C30_ProbeRespectsValidity ==
    (last.op = "check" /\ ~AddressIn7Bits(last.a.device_address)) =>
        last.log = <<>>

====
